---------------------------- MODULE Spec2Model ----------------------------
(***************************************************************************)
(* Model of the restaurant analytics dashboard (src/app.py) and of the     *)
(* transaction table it reads (src/generate_data.py).                      *)
(*                                                                         *)
(* One run of the Streamlit script is one step: a widget changes, and the  *)
(* script recomputes filtered_df and everything derived from it.           *)
(*                                                                         *)
(* Money is an integer number of currency units.  A quotient (margin per   *)
(* unit, a median, the annualised waste estimate) is an exact fraction     *)
(* [n, d] in lowest terms with d > 0; [n |-> 0, d |-> 0] is NaN, which     *)
(* compares false with everything, as a float NaN does.  Timestamps are    *)
(* hours since day 0, so a date d is the timestamp 24 * d (midnight).      *)
(***************************************************************************)
EXTENDS Integers, Sequences, FiniteSets, TLC

VARIABLES
    df,                     \* the loaded transaction table (load_data)
    date_range,             \* sidebar slider: <<start date, end date>>
    categories,             \* sidebar multiselect: set of category names
    channels,               \* sidebar multiselect: set of channel names
    filtered_df,            \* filter_data(df, date_range, categories, channels)
    total_revenue,          \* Overview tab: filtered_df['total_revenue'].sum()
    item_stats,             \* calculate_menu_engineering(filtered_df)[0]
    median_revenue,         \* calculate_menu_engineering(filtered_df)[1]
    median_margin,          \* calculate_menu_engineering(filtered_df)[2]
    annual_waste_estimate,  \* Waste tab: <<value>>, or <<>> when never assigned
    error,                  \* exception that ended the script run, or "none"
    kpi,                    \* Overview and Waste tab ratios
    holiday,                \* Time Patterns tab: <<holiday cards>>, or <<>>
    selected_item,          \* Price Simulator selectbox ("None": no option)
    price_change,           \* Price Simulator slider, percent
    elasticity,             \* Price Simulator slider, percent
    current,                \* Price Simulator: <<current figures>>, or <<>>
    projected,              \* Price Simulator: <<projected figures>>, or <<>>
    records,                \* generate_transactions: the records appended so far
    order_id,               \* generate_transactions: the order counter
    current_date,           \* generate_transactions: day of the outer loop
    orders_left,            \* orders of the day still to generate
    channel,                \* channel of the order being generated
    order_items,            \* items of the order not yet turned into records
    at,                     \* position in generate_transactions
    orders_begun,           \* history: the number of orders begun
    order_of                \* history: for each record, the order it was made for

dashboard_vars ==
    <<df, date_range, categories, channels, filtered_df, total_revenue,
      item_stats, median_revenue, median_margin, annual_waste_estimate,
      error, kpi, holiday, selected_item, price_change, elasticity,
      current, projected>>

generator_vars ==
    <<records, order_id, current_date, orders_left, channel, order_items, at,
      orders_begun, order_of>>

vars == <<dashboard_vars, generator_vars>>

---------------------------------------------------------------------------
(* Bounds of the model *)

MaxRows == 3        \* rows of the loaded table, dashboard specification
MaxFilterRows == 2  \* rows of the table, filter contract specification
MaxProjectRows == 2 \* rows of the table, simulator specification
MaxSimRows == 2     \* rows of the table, filters together with the simulator
MaxRecords == 4     \* records the generator appends
MaxDailyOrders == 2 \* orders of one day of the generator
EndDay == 1         \* last day of the generator (day 0 is the start date)

---------------------------------------------------------------------------
(* Exact fractions *)

Abs(x) == IF x < 0 THEN -x ELSE x

RECURSIVE GCD(_, _)
GCD(a, b) == IF b = 0 THEN a ELSE GCD(b, a % b)

NaN == [n |-> 0, d |-> 0]

\* n / d as a float division of two numbers: lowest terms, positive
\* denominator.  Callers guard d # 0 (Python raises on a zero int divisor).
\* n / d with the common factor g taken out and the sign in the numerator
Lowest(n, d, g) ==
    IF d < 0 THEN [n |-> -(n \div g), d |-> -(d \div g)]
    ELSE [n |-> n \div g, d |-> d \div g]

Frac(n, d) == IF d = 0 THEN NaN ELSE Lowest(n, d, GCD(Abs(n), Abs(d)))

IsNaN(x) == x.d = 0

\* x >= y and x < y on floats: both false when either side is NaN
FracGE(x, y) == ~IsNaN(x) /\ ~IsNaN(y) /\ x.n * y.d >= y.n * x.d
FracLT(x, y) == ~IsNaN(x) /\ ~IsNaN(y) /\ x.n * y.d < y.n * x.d

\* (x + y) / 2
FracMean(x, y) ==
    IF IsNaN(x) \/ IsNaN(y) THEN NaN
    ELSE Frac(x.n * y.d + y.n * x.d, 2 * x.d * y.d)

FracMul(x, y) ==
    IF IsNaN(x) \/ IsNaN(y) THEN NaN ELSE Frac(x.n * y.n, x.d * y.d)

FracAdd(x, y) ==
    IF IsNaN(x) \/ IsNaN(y) THEN NaN ELSE Frac(x.n * y.d + y.n * x.d, x.d * y.d)

FracSub(x, y) ==
    IF IsNaN(x) \/ IsNaN(y) THEN NaN ELSE Frac(x.n * y.d - y.n * x.d, x.d * y.d)

\* x / y on numpy floats: a zero divisor gives inf or nan (no exception),
\* both of which are the value NaN here
FracDiv(x, y) ==
    IF IsNaN(x) \/ IsNaN(y) THEN NaN ELSE Frac(x.n * y.d, x.d * y.n)

---------------------------------------------------------------------------
(* Dates and timestamps *)

\* pd.to_datetime(date): midnight of that date
to_datetime(d) == 24 * d

\* Timestamp.date(): the calendar date of a timestamp
date(ts) == ts \div 24

---------------------------------------------------------------------------
(* The transaction table *)

\* MENU_ITEMS: the category of each item, item names in sorted order
ItemNames == <<"Classic Burger", "Coffee", "Grilled Salmon">>

MenuCategory(name) ==
    IF name = "Coffee" THEN "Beverages" ELSE "Mains"

\* HOLIDAYS, reduced to the model's calendar: day 2 is a holiday
is_holiday(d) == d = 2

\* One record of generate_transactions: the derived columns are computed
\* from price, food cost, quantity and the waste flag.
Record(order, d, hour, chan, name, actual_price, food_cost, quantity, is_waste) ==
    LET revenue == IF ~is_waste THEN actual_price * quantity ELSE 0
        cost == food_cost * quantity
    IN  [order_id |-> order,
         order_date |-> to_datetime(d),
         order_datetime |-> to_datetime(d) + hour,
         order_channel |-> chan,
         item_name |-> name,
         category |-> MenuCategory(name),
         actual_price |-> actual_price,
         food_cost_per_unit |-> food_cost,
         quantity |-> quantity,
         total_revenue |-> revenue,
         total_food_cost |-> cost,
         contribution_margin |-> revenue - cost,
         is_waste |-> is_waste,
         is_holiday |-> is_holiday(d)]

\* The line items a table of the model is made of
LineItems ==
    { Record(1, 1, 12, "Dine-In",  "Classic Burger", 10, 4, 1, FALSE),
      Record(3, 2, 19, "Delivery", "Classic Burger", 1000, 995, 1, FALSE),
      Record(4, 2, 13, "Dine-In",  "Classic Burger", 10, 4, 1, TRUE),
      Record(1, 1, 12, "Dine-In",  "Coffee", 20, 4, 1, FALSE),
      Record(3, 2, 19, "Delivery", "Coffee", 500, 490, 1, FALSE),
      Record(2, 1, 20, "Delivery", "Grilled Salmon", 10, 4, 3, FALSE) }

\* pd.read_csv: row k of the file gets index label k (column "idx")
WithIndex(rows) ==
    [k \in DOMAIN rows |->
        [c \in DOMAIN rows[k] \cup {"idx"} |-> IF c = "idx" THEN k ELSE rows[k][c]]]

\* the generator writes one row per (order, item): no line item twice
Distinct(rows) == \A j \in DOMAIN rows, k \in DOMAIN rows : j # k => rows[j] # rows[k]

Tables(maxLen) ==
    { WithIndex(rows) :
        rows \in UNION { { f \in [1..n -> LineItems] : Distinct(f) } : n \in 1..maxLen } }

Range(s) == { s[k] : k \in DOMAIN s }

RECURSIVE SetMin(_)
SetMin(S) ==
    LET x == CHOOSE y \in S : TRUE
    IN  IF S = {x} THEN x
        ELSE LET m == SetMin(S \ {x}) IN IF x < m THEN x ELSE m

RECURSIVE SetMax(_)
SetMax(S) ==
    LET x == CHOOSE y \in S : TRUE
    IN  IF S = {x} THEN x
        ELSE LET m == SetMax(S \ {x}) IN IF x > m THEN x ELSE m

---------------------------------------------------------------------------
(* Sidebar widgets *)

\* st.slider bounds: df['order_date'].min().date(), df['order_date'].max().date()
MinDate(t) == date(SetMin({ t[k].order_date : k \in DOMAIN t }))
MaxDate(t) == date(SetMax({ t[k].order_date : k \in DOMAIN t }))

\* multiselect options: sorted(df['category'].unique()), df['order_channel'].unique()
CategoryOptions(t) == { t[k].category : k \in DOMAIN t }
ChannelOptions(t) == { t[k].order_channel : k \in DOMAIN t }

---------------------------------------------------------------------------
(* filter_data *)

\* Faulty variant: the mask compares order_datetime instead of order_date
InDateRange_datetime(r, dr) ==
    /\ r.order_datetime >= to_datetime(dr[1])
    /\ r.order_datetime <= to_datetime(dr[2])

\* Faulty variant: the end of the range is exclusive
InDateRange_exclusive(r, dr) ==
    /\ r.order_date >= to_datetime(dr[1])
    /\ r.order_date < to_datetime(dr[2])

\* the date mask of filter_data
InDateRange(r, dr) ==
    /\ r.order_date >= to_datetime(dr[1])
    /\ r.order_date <= to_datetime(dr[2])

\* Faulty variant: isin is applied to an empty list too
InCategories_always(r, cats) == r.category \in cats

\* filtered['category'].isin(categories), applied only when the list is truthy
InCategories(r, cats) == cats # {} => r.category \in cats

\* filtered['order_channel'].isin(channels), applied only when the list is truthy
InChannels(r, chans) == chans # {} => r.order_channel \in chans

\* Faulty variant: the category and channel selections are concatenated, not chained
filter_data_concat(t, dr, cats, chans) ==
    LET byDate == SelectSeq(t, LAMBDA r : InDateRange(r, dr))
    IN  SelectSeq(byDate, LAMBDA r : InCategories(r, cats))
            \o SelectSeq(byDate, LAMBDA r : InChannels(r, chans) /\ ~InCategories(r, cats))

\* Faulty variant: the first row of the result is taken for a header and dropped
filter_data_skipfirst(t, dr, cats, chans) ==
    LET kept == SelectSeq(t, LAMBDA r :
                    InDateRange(r, dr) /\ InCategories(r, cats) /\ InChannels(r, chans))
    IN  IF kept = <<>> THEN kept ELSE Tail(kept)

filter_data(t, dr, cats, chans) ==
    LET byDate == SelectSeq(t, LAMBDA r : InDateRange(r, dr))
        byCategory == SelectSeq(byDate, LAMBDA r : InCategories(r, cats))
        byChannel == SelectSeq(byCategory, LAMBDA r : InChannels(r, chans))
    IN  byChannel

---------------------------------------------------------------------------
(* calculate_menu_engineering *)

RECURSIVE SumColumn(_, _)
SumColumn(t, col) ==
    IF t = <<>> THEN 0 ELSE t[1][col] + SumColumn(Tail(t), col)

\* df.groupby('item_name'): one group per name present, keys in sorted order
GroupKeys(t) ==
    SelectSeq(ItemNames, LAMBDA name : \E k \in DOMAIN t : t[k].item_name = name)

\* Faulty variant: quantity_sold sums the quantity column instead of counting rows
ItemAggregate_units(t, name) ==
    LET group == SelectSeq(t, LAMBDA r : r.item_name = name)
        revenue == SumColumn(group, "total_revenue")
        margin == SumColumn(group, "contribution_margin")
        quantity_sold == SumColumn(group, "quantity")
    IN  [item_name |-> name,
         revenue |-> revenue,
         margin |-> margin,
         quantity_sold |-> quantity_sold,
         margin_per_unit |-> Frac(margin, quantity_sold)]

\* Faulty variant: total_revenue is aggregated with 'first' instead of 'sum'
ItemAggregate_first(t, name) ==
    LET group == SelectSeq(t, LAMBDA r : r.item_name = name)
        revenue == group[1].total_revenue
        margin == SumColumn(group, "contribution_margin")
        quantity_sold == Len(group)
    IN  [item_name |-> name,
         revenue |-> revenue,
         margin |-> margin,
         quantity_sold |-> quantity_sold,
         margin_per_unit |-> Frac(margin, quantity_sold)]

\* .agg({'total_revenue': 'sum', 'contribution_margin': 'sum',
\*       'order_id': 'count'}) of one group, and margin_per_unit
ItemAggregate(t, name) ==
    LET group == SelectSeq(t, LAMBDA r : r.item_name = name)
        revenue == SumColumn(group, "total_revenue")
        margin == SumColumn(group, "contribution_margin")
        quantity_sold == Len(group)
    IN  [item_name |-> name,
         revenue |-> revenue,
         margin |-> margin,
         quantity_sold |-> quantity_sold,
         margin_per_unit |-> Frac(margin, quantity_sold)]

\* insert x into the ascending sequence s
RECURSIVE Insert(_, _)
Insert(x, s) ==
    IF s = <<>> THEN <<x>>
    ELSE IF FracGE(s[1], x) THEN <<x>> \o s
    ELSE <<s[1]>> \o Insert(x, Tail(s))

RECURSIVE Sorted(_)
Sorted(s) == IF s = <<>> THEN <<>> ELSE Insert(s[1], Sorted(Tail(s)))

\* Faulty variant: for an even count the lower of the two middle values is taken
Middle_lower(s) ==
    IF Len(s) = 0 THEN NaN
    ELSE s[(Len(s) + 1) \div 2]

\* the middle value of the ascending sequence s, or the mean of its two
\* middle values; NaN when there is none
Middle(s) ==
    IF Len(s) = 0 THEN NaN
    ELSE IF Len(s) % 2 = 1 THEN s[(Len(s) + 1) \div 2]
    ELSE FracMean(s[Len(s) \div 2], s[Len(s) \div 2 + 1])

\* Series.median()
Median(values) == Middle(Sorted(values))

\* Faulty variant: ties go to the low branch (> instead of >=)
classify_strict(row, med_revenue, med_margin) ==
    LET highRevenue == ~IsNaN(med_revenue) /\ ~FracGE(med_revenue, Frac(row.revenue, 1))
        highMargin == ~IsNaN(med_margin) /\ ~FracGE(med_margin, row.margin_per_unit)
    IN  IF highRevenue /\ highMargin THEN "Star"
        ELSE IF highRevenue THEN "Plowhorse"
        ELSE IF highMargin THEN "Puzzle"
        ELSE "Dog"

\* the nested function classify(row)
classify(row, med_revenue, med_margin) ==
    IF FracGE(Frac(row.revenue, 1), med_revenue) /\ FracGE(row.margin_per_unit, med_margin)
    THEN "Star"
    ELSE IF FracGE(Frac(row.revenue, 1), med_revenue) /\ FracLT(row.margin_per_unit, med_margin)
    THEN "Plowhorse"
    ELSE IF FracLT(Frac(row.revenue, 1), med_revenue) /\ FracGE(row.margin_per_unit, med_margin)
    THEN "Puzzle"
    ELSE "Dog"

\* item_stats.apply(classify, axis=1), stored as column 'classification'
Classified(stats, med_revenue, med_margin) ==
    [k \in DOMAIN stats |->
        [item_name |-> stats[k].item_name,
         revenue |-> stats[k].revenue,
         margin |-> stats[k].margin,
         quantity_sold |-> stats[k].quantity_sold,
         margin_per_unit |-> stats[k].margin_per_unit,
         classification |-> classify(stats[k], med_revenue, med_margin)]]

\* the grouped frame: one aggregate per key
RECURSIVE Aggregates(_, _)
Aggregates(t, keys) ==
    IF keys = <<>> THEN <<>>
    ELSE <<ItemAggregate(t, keys[1])>> \o Aggregates(t, Tail(keys))

\* the medians of the grouped frame and the returned triple
WithMedians(stats, med_revenue, med_margin) ==
    [item_stats |-> Classified(stats, med_revenue, med_margin),
     median_revenue |-> med_revenue,
     median_margin |-> med_margin]

Summarise(stats) ==
    WithMedians(stats,
                Median([k \in DOMAIN stats |-> Frac(stats[k].revenue, 1)]),
                Median([k \in DOMAIN stats |-> stats[k].margin_per_unit]))

\* (On an empty frame some pandas versions have apply(classify, axis=1)
\* return a frame and reject assigning it to one column; that
\* version-dependent error is not modelled: the empty frame yields no
\* aggregates and NaN medians.)
calculate_menu_engineering(t) == Summarise(Aggregates(t, GroupKeys(t)))

---------------------------------------------------------------------------
(* generate_data.py: the transaction generator *)

\* Money is in cents here.  A part of the menu: two mains, one of them
\* seafood, and one item of every other category.
Item(name, words, price, food_cost) ==
    [name |-> name, words |-> words, price |-> price, food_cost |-> food_cost]

MenuCategories == {"Starters", "Mains", "Sides", "Desserts", "Beverages", "Kids Menu"}

MENU_ITEMS ==
    [c \in MenuCategories |->
        CASE c = "Starters" -> { Item("Calamari", <<"Calamari">>, 1399, 480) }
          [] c = "Mains" ->
                { Item("Classic Burger", <<"Classic", "Burger">>, 1499, 520),
                  Item("Grilled Salmon", <<"Grilled", "Salmon">>, 2499, 1100) }
          [] c = "Sides" -> { Item("French Fries", <<"French", "Fries">>, 499, 120) }
          [] c = "Desserts" -> { Item("Apple Pie", <<"Apple", "Pie">>, 699, 200) }
          [] c = "Beverages" -> { Item("Coffee", <<"Coffee">>, 349, 60) }
          [] c = "Kids Menu" ->
                { Item("Kids Burger & Fries", <<"Kids", "Burger", "&", "Fries">>, 799, 250) }]

\* The whole lists of the three categories that no waste branch names
\* (none of their words contains 'Salmon' or 'Fish' as a substring)
SidesBeveragesKids ==
    [c \in {"Sides", "Beverages", "Kids Menu"} |->
        CASE c = "Sides" ->
                { Item("French Fries", <<"French", "Fries">>, 499, 120),
                  Item("Onion Rings", <<"Onion", "Rings">>, 599, 180),
                  Item("Coleslaw", <<"Coleslaw">>, 399, 100),
                  Item("Sweet Potato Fries", <<"Sweet", "Potato", "Fries">>, 599, 220) }
          [] c = "Beverages" ->
                { Item("Soft Drink", <<"Soft", "Drink">>, 299, 50),
                  Item("Iced Tea", <<"Iced", "Tea">>, 299, 40),
                  Item("Coffee", <<"Coffee">>, 349, 60),
                  Item("Craft Beer", <<"Craft", "Beer">>, 699, 150),
                  Item("House Wine (Glass)", <<"House", "Wine", "(Glass)">>, 899, 200),
                  Item("Signature Cocktail", <<"Signature", "Cocktail">>, 1199, 300) }
          [] c = "Kids Menu" ->
                { Item("Kids Burger & Fries", <<"Kids", "Burger", "&", "Fries">>, 799, 250),
                  Item("Kids Chicken Tenders", <<"Kids", "Chicken", "Tenders">>, 699, 220),
                  Item("Kids Mac & Cheese", <<"Kids", "Mac", "&", "Cheese">>, 649, 180) }]

CHANNELS == {"Dine-In", "Takeout", "Delivery"}

\* np.random.uniform(0.05, 0.08), in percent: both ends of the interval
InflationRates == {5, 8}

\* (a * b) / (c * d) for c and d other than 0, with the common factors
\* taken out before the products are formed (the amounts in cents are large)
Reduced(a, b, c, d, g, h) ==
    Frac((a \div g) * (b \div h), (c \div g) * (d \div h))

Quotient(a, b, c, d) == Reduced(a, b, c, d, GCD(Abs(a), Abs(c)), GCD(Abs(b), Abs(d)))

\* x * y and x / y on Python floats, y other than 0
Times(x, y) == Quotient(x.n, y.n, y.d, x.d)
Over(x, y) == Quotient(x.n, y.d, y.n, x.d)

\* round(x, 2) of an amount in cents: the nearest whole cent
Round(x) ==
    IF x.n >= 0 THEN (2 * x.n + x.d) \div (2 * x.d)
    ELSE -((2 * (-x.n) + x.d) \div (2 * x.d))

\* round(x, 2) of a percentage that is not negative, in hundredths of a
\* percent: two decimal digits by long division, rounded on the third
Hundredths(x) ==
    LET r0 == x.n % x.d
        r1 == (r0 * 10) % x.d
        r2 == (r1 * 10) % x.d
    IN  (x.n \div x.d) * 100 + ((r0 * 10) \div x.d) * 10 + (r1 * 10) \div x.d
            + (IF 2 * r2 >= x.d THEN 1 ELSE 0)

\* base_price * (1 + inflation_rate / 547 * days_elapsed)
get_price_inflation(days_elapsed, base_price, rate) ==
    Frac(base_price * (54700 + rate * days_elapsed), 54700)

\* an entry of the list generate_order_items returns
Entry(category, item) == [category |-> category, item |-> item]

\* an optional course: nothing, or one item of the category
Course(category) ==
    {<<>>} \cup { <<Entry(category, item)>> : item \in MENU_ITEMS[category] }

\* the lists generate_order_items can return: a main and a drink, then
\* maybe a starter, a dessert, a side and a kids item, in this order
generate_order_items ==
    { <<Entry("Mains", main), Entry("Beverages", drink)>> \o starter \o dessert \o side \o kids :
        main \in MENU_ITEMS["Mains"], drink \in MENU_ITEMS["Beverages"],
        starter \in Course("Starters"), dessert \in Course("Desserts"),
        side \in Course("Sides"), kids \in Course("Kids Menu") }

\* 'Salmon' in item['name']
NameHas(item, word) == \E k \in DOMAIN item.words : item.words[k] = word

NotWaste == [is_waste |-> FALSE, waste_type |-> "None"]
Waste(type) == [is_waste |-> TRUE, waste_type |-> type]

\* Faulty variant: the seafood test comes before the category tests
WasteDraws_seafoodFirst(category, item) ==
    IF NameHas(item, "Salmon") \/ NameHas(item, "Fish")
    THEN {NotWaste, Waste("Customer Return"), Waste("Kitchen Error"), Waste("Spoilage")}
    ELSE IF category \in {"Mains", "Starters", "Desserts"}
    THEN {NotWaste, Waste("Customer Return"), Waste("Kitchen Error")}
    ELSE {NotWaste}

\* the waste flag and type the generator can draw for an item
WasteDraws(category, item) ==
    IF category = "Mains"
    THEN {NotWaste, Waste("Customer Return"), Waste("Kitchen Error")}
    ELSE IF category \in {"Starters", "Desserts"}
    THEN {NotWaste, Waste("Customer Return"), Waste("Kitchen Error")}
    ELSE IF NameHas(item, "Salmon") \/ NameHas(item, "Fish")
    THEN {NotWaste, Waste("Customer Return"), Waste("Kitchen Error"), Waste("Spoilage")}
    ELSE {NotWaste}

\* Faulty variant: a wasted item is charged
Revenue_charged(actual_price, quantity, is_waste) == Times(actual_price, Frac(quantity, 1))

\* total_revenue = actual_price * quantity if not is_waste else 0
Revenue(actual_price, quantity, is_waste) ==
    IF ~is_waste THEN Times(actual_price, Frac(quantity, 1)) ELSE Frac(0, 1)

\* food cost, 10 percent higher for delivery
FoodCost(item, chan) ==
    IF chan = "Delivery" THEN Frac(item.food_cost * 110, 100) ELSE Frac(item.food_cost, 1)

\* (total_food_cost / total_revenue * 100) if total_revenue > 0 else 0
FoodCostPct(cost, revenue) ==
    IF revenue.n > 0 THEN Times(Over(cost, revenue), Frac(100, 1)) ELSE Frac(0, 1)

\* str(n): the decimal digits of n
RECURSIVE Digits(_)
Digits(n) == IF n < 10 THEN <<n>> ELSE Digits(n \div 10) \o <<n % 10>>

\* s.zfill(width)
ZFill(s, width) ==
    IF Len(s) >= width THEN s ELSE [k \in 1..(width - Len(s)) |-> 0] \o s

\* f'ORD{str(order_id).zfill(7)}', without the prefix
OrderLabel(n) == ZFill(Digits(n), 7)

\* the record dictionary, from the figures computed for the item
RecordOf(id, day, chan, entry, price, cost, quantity, revenue, waste) ==
    [order_id |-> OrderLabel(id),
     order_date |-> day,
     order_channel |-> chan,
     item_name |-> entry.item.name,
     category |-> entry.category,
     menu_price |-> Round(price),
     actual_price |-> Round(price),
     food_cost_per_unit |-> Round(cost),
     quantity |-> quantity,
     total_revenue |-> Round(revenue),
     total_food_cost |-> Round(Times(cost, Frac(quantity, 1))),
     contribution_margin |-> Round(FracSub(revenue, Times(cost, Frac(quantity, 1)))),
     food_cost_pct |-> Hundredths(FoodCostPct(Times(cost, Frac(quantity, 1)), revenue)),
     is_waste |-> waste.is_waste,
     waste_type |-> waste.waste_type]

WithPrice(id, day, chan, entry, price, quantity, waste) ==
    RecordOf(id, day, chan, entry, price, FoodCost(entry.item, chan), quantity,
             Revenue(price, quantity, waste.is_waste), waste)

\* quantity = 1
MakeRecord(id, day, chan, entry, rate, waste) ==
    WithPrice(id, day, chan, entry, get_price_inflation(day, entry.item.price, rate), 1, waste)

\* Faulty variant: the order counter stays
NextOrderId_same(id) == id

\* order_id += 1
NextOrderId(id) == id + 1

\* records = [], order_id = 1, current_date = start_date
GeneratorStart ==
    /\ records = <<>>
    /\ order_id = 1
    /\ current_date = 0
    /\ orders_left = 0
    /\ channel = "None"
    /\ order_items = <<>>
    /\ at = "day"
    /\ orders_begun = 0
    /\ order_of = <<>>

---------------------------------------------------------------------------
(* One run of the script *)

\* (date_range[1] - date_range[0]).days + 1
RangeDays(dr) == (dr[2] - dr[1]) + 1

\* Waste tab: waste_df and total_waste_cost
TotalWasteCost(filtered) ==
    SumColumn(SelectSeq(filtered, LAMBDA r : r.is_waste), "total_food_cost")

\* Waste tab: total_waste_cost * (365 / ((end - start).days + 1)).  The
\* divisor is a Python int: when it is zero the division raises
\* ZeroDivisionError, the run ends and nothing is assigned.
WasteTabRaises(dr) == RangeDays(dr) = 0

AnnualWasteEstimate(filtered, dr) ==
    IF WasteTabRaises(dr) THEN <<>>
    ELSE <<Frac(TotalWasteCost(filtered) * 365, RangeDays(dr))>>

WasteError(dr) == IF WasteTabRaises(dr) THEN "ZeroDivisionError" ELSE "none"

\* the frame with the column 'month' assigned: the month of order_date
\* (months of 31 days from day 0)
WithMonth(rows) ==
    [k \in DOMAIN rows |->
        [c \in DOMAIN rows[k] \cup {"month"} |->
            IF c = "month" THEN date(rows[k].order_date) \div 31 ELSE rows[k][c]]]

\* Faulty variant: waste_df is a view, so the assignment of its column
\* 'month' writes through to the rows of the loaded table
AfterWasteTrend_view(t, filtered, dr) ==
    IF WasteTabRaises(dr) THEN t
    ELSE [k \in DOMAIN t |->
            IF \E j \in DOMAIN filtered : filtered[j].idx = k /\ filtered[j].is_waste
            THEN WithMonth(<<t[k]>>)[1]
            ELSE t[k]]

\* The loaded table after waste_df['month'] = ...: waste_df comes from
\* indexing filtered_df with a boolean mask, which copies the selected rows,
\* so the new column is on the copy only.
AfterWasteTrend(t, filtered, dr) == t

---------------------------------------------------------------------------
(* Overview tab: key metrics *)

\* The value an assignment statement binds: its right-hand side is
\* evaluated once, S being the set of that one value.
Assigned(S) == CHOOSE x \in S : TRUE

\* Series.nunique()
NUnique(t, col) == Cardinality({ t[k][col] : k \in DOMAIN t })

\* The ratios of the Overview cards and the waste rate of the Waste tab.
\* Column sums are numpy floats, so an unguarded x / 0 is inf or nan and
\* raises nothing; the mean of an empty series is nan.
Ratios(revenue, cost, waste_cost, orders, waste_rows, rows) ==
    [food_cost_pct |-> IF revenue > 0 THEN Frac(cost * 100, revenue) ELSE Frac(0, 1),
     gross_margin_pct |-> Frac((revenue - cost) * 100, revenue),
     avg_ticket |-> Frac(revenue, orders),
     waste_share |-> Frac(waste_cost * 100, cost),
     waste_rate |-> IF rows > 0 THEN Frac(waste_rows * 100, rows) ELSE Frac(0, 1)]

KeyMetrics(filtered) ==
    Ratios(SumColumn(filtered, "total_revenue"),
           SumColumn(filtered, "total_food_cost"),
           TotalWasteCost(filtered),
           NUnique(filtered, "order_id"),
           Len(SelectSeq(filtered, LAMBDA r : r.is_waste)),
           Len(filtered))

---------------------------------------------------------------------------
(* Time Patterns tab: holiday impact *)

\* mean over the days of one group of the day's revenue
DailyMean(rows) == Frac(SumColumn(rows, "total_revenue"), NUnique(rows, "order_date"))

\* groupby(['is_holiday', 'order_date']).sum().groupby('is_holiday').mean():
\* a series indexed by the flags that occur
holiday_avg(filtered) ==
    [flag \in { filtered[k].is_holiday : k \in DOMAIN filtered } |->
        DailyMean(SelectSeq(filtered, LAMBDA r : r.is_holiday = flag))]

\* holiday_avg[key]: <<value>>, or <<>> for the KeyError of an absent key
Lookup(h, key) == IF key \in DOMAIN h THEN <<h[key]>> ELSE <<>>

\* Faulty variant: the regular card reads holiday_avg[False] unguarded
RegularCard_unguarded(h) == Lookup(h, FALSE)

\* f"${holiday_avg[False]:,.0f}" if False in holiday_avg else "$0"
RegularCard(h) == IF FALSE \in DOMAIN h THEN Lookup(h, FALSE) ELSE <<Frac(0, 1)>>

\* f"${holiday_avg[True]:,.0f}" if True in holiday_avg else "$0"
HolidayCard(h) == IF TRUE \in DOMAIN h THEN Lookup(h, TRUE) ELSE <<Frac(0, 1)>>

\* the guard of the percentage: True in holiday_avg and False in holiday_avg
DeltaShown(h) == TRUE \in DOMAIN h /\ FALSE \in DOMAIN h

\* (holiday_avg[True] / holiday_avg[False] - 1) * 100
DeltaOf(hol, reg) ==
    IF hol = <<>> \/ reg = <<>> THEN <<>>
    ELSE <<FracMul(FracSub(FracDiv(hol[1], reg[1]), Frac(1, 1)), Frac(100, 1))>>

\* the two cards; delta is <<>> when no percentage is shown; raised when a
\* lookup named an absent key
Cards(h, regular, hol, shown) ==
    [regular |-> regular,
     holiday |-> hol,
     delta |-> IF shown THEN DeltaOf(Lookup(h, TRUE), Lookup(h, FALSE)) ELSE <<>>,
     raised |-> \/ regular = <<>>
                \/ hol = <<>>
                \/ shown /\ (Lookup(h, TRUE) = <<>> \/ Lookup(h, FALSE) = <<>>)]

HolidayCards(h) ==
    Assigned({ Cards(h, regular, hol, DeltaShown(h)) :
                 regular \in {RegularCard(h)}, hol \in {HolidayCard(h)} })

---------------------------------------------------------------------------
(* Price Simulator tab *)

\* Faulty variant: the simulator classifies against the unfiltered table
SimulatorMenu_unfiltered(t, filtered) == calculate_menu_engineering(t)

\* calculate_menu_engineering(filtered_df), called again by the tab
SimulatorMenu(t, filtered) == calculate_menu_engineering(filtered)

\* selectbox options: sorted(filtered_df['item_name'].unique())
ItemOptions(filtered) == GroupKeys(filtered)

\* The selectbox keeps its selection while it is shown with the same options;
\* with other options it is a new widget showing its first option, and with
\* no option it returns None.
Selectbox(options, shown, selection) ==
    IF options = <<>> THEN "None"
    ELSE IF shown = options /\ (\E k \in DOMAIN options : options[k] = selection)
    THEN selection
    ELSE options[1]

\* item_stats[item_stats['item_name'] == selected_item]['classification']
\* .values[0]: indexing the empty array raises IndexError ("unassigned")
ClassOf(stats, item) ==
    LET hits == SelectSeq(stats, LAMBDA r : r.item_name = item)
    IN  IF hits = <<>> THEN "unassigned" ELSE hits[1].classification

\* the current figures of the selected item; the means of an empty frame
\* and 0.0 / 0 are nan
Figures(item_data, menu, item) ==
    [current_price |-> Frac(SumColumn(item_data, "actual_price"), Len(item_data)),
     current_food_cost |-> Frac(SumColumn(item_data, "food_cost_per_unit"), Len(item_data)),
     current_quantity |-> Len(item_data),
     current_revenue |-> SumColumn(item_data, "total_revenue"),
     current_margin |-> SumColumn(item_data, "contribution_margin"),
     current_margin_per_unit |-> Frac(SumColumn(item_data, "contribution_margin"), Len(item_data)),
     median_revenue |-> menu.median_revenue,
     median_margin |-> menu.median_margin,
     current_class |-> ClassOf(menu.item_stats, item)]

CurrentFigures(t, filtered, item) ==
    Assigned({ Figures(item_data, menu, item) :
                 item_data \in {SelectSeq(filtered, LAMBDA r : r.item_name = item)},
                 menu \in {SimulatorMenu(t, filtered)} })

\* Faulty variant: the elasticity is taken as a coefficient, the volume
\* falling by elasticity times price_change percent
VolumeChange_coefficient(pc, el) ==
    IF pc > 0 THEN Frac(-(el * pc), 1) ELSE Frac(Abs(el), 2)

\* Faulty variant: the volume response is symmetric
VolumeChange_symmetric(pc, el) ==
    IF pc > 0 THEN Frac(-el, 1) ELSE Frac(Abs(el), 1)

\* volume_change = -elasticity if price_change > 0 else abs(elasticity / 2)
VolumeChange(pc, el) ==
    IF pc > 0 THEN Frac(-el, 1) ELSE Frac(Abs(el), 2)

\* Faulty variant: the margin is divided by the whole number of units sold
MarginPerUnit_wholeUnits(new_margin, new_quantity) ==
    IF FracGE(new_quantity, Frac(0, 1)) /\ ~FracGE(Frac(0, 1), new_quantity)
    THEN FracDiv(new_margin, Frac((new_quantity.n + new_quantity.d - 1) \div new_quantity.d, 1))
    ELSE Frac(0, 1)

\* Faulty variant: the guard of the division is inverted
MarginPerUnit_inverted(new_margin, new_quantity) ==
    IF FracGE(new_quantity, Frac(0, 1)) /\ ~FracGE(Frac(0, 1), new_quantity)
    THEN Frac(0, 1)
    ELSE FracDiv(new_margin, new_quantity)

\* new_margin / new_quantity if new_quantity > 0 else 0
MarginPerUnit(new_margin, new_quantity) ==
    IF FracGE(new_quantity, Frac(0, 1)) /\ ~FracGE(Frac(0, 1), new_quantity)
    THEN FracDiv(new_margin, new_quantity)
    ELSE Frac(0, 1)

\* Faulty variant: the projected class is a Star whenever revenue is high
NewClass_revenueOnly(new_revenue, new_margin_per_unit, med_revenue, med_margin) ==
    IF FracGE(new_revenue, med_revenue) THEN "Star"
    ELSE IF FracGE(new_margin_per_unit, med_margin) THEN "Puzzle"
    ELSE "Dog"

\* the projected classification
NewClass(new_revenue, new_margin_per_unit, med_revenue, med_margin) ==
    IF FracGE(new_revenue, med_revenue) /\ FracGE(new_margin_per_unit, med_margin)
    THEN "Star"
    ELSE IF FracGE(new_revenue, med_revenue) /\ FracLT(new_margin_per_unit, med_margin)
    THEN "Plowhorse"
    ELSE IF FracLT(new_revenue, med_revenue) /\ FracGE(new_margin_per_unit, med_margin)
    THEN "Puzzle"
    ELSE "Dog"

\* Faulty variant: the food cost is repriced together with the price
NewMargin_repricedCost(new_price, food_cost, new_quantity, pc) ==
    FracMul(FracSub(new_price, FracMul(food_cost, Frac(100 + pc, 100))), new_quantity)

\* new_margin = (new_price - current_food_cost) * new_quantity
NewMargin(new_price, food_cost, new_quantity, pc) ==
    FracMul(FracSub(new_price, food_cost), new_quantity)

\* the projections, once every figure is computed
Outcome(cur, new_price, volume_change, new_quantity, new_revenue, new_margin, new_margin_per_unit) ==
    [new_price |-> new_price,
     volume_change |-> volume_change,
     new_quantity |-> new_quantity,
     new_revenue |-> new_revenue,
     new_margin |-> new_margin,
     new_margin_per_unit |-> new_margin_per_unit,
     new_class |-> NewClass(new_revenue, new_margin_per_unit,
                            cur.median_revenue, cur.median_margin),
     net_impact |-> FracSub(new_margin, Frac(cur.current_margin, 1))]

\* new_margin_per_unit, then new_class and net_impact
WithMargin(cur, new_price, volume_change, new_quantity, new_revenue, new_margin) ==
    Assigned({ Outcome(cur, new_price, volume_change, new_quantity, new_revenue,
                       new_margin, new_margin_per_unit) :
                 new_margin_per_unit \in {MarginPerUnit(new_margin, new_quantity)} })

\* new_revenue and new_margin
WithQuantity(cur, pc, new_price, volume_change, new_quantity) ==
    Assigned({ WithMargin(cur, new_price, volume_change, new_quantity, new_revenue, new_margin) :
                 new_revenue \in {FracMul(new_price, new_quantity)},
                 new_margin \in {NewMargin(new_price, cur.current_food_cost, new_quantity, pc)} })

\* new_quantity = current_quantity * (1 + volume_change / 100)
WithVolume(cur, pc, new_price, volume_change) ==
    Assigned({ WithQuantity(cur, pc, new_price, volume_change, new_quantity) :
                 new_quantity \in {FracMul(Frac(cur.current_quantity, 1),
                                           FracAdd(Frac(1, 1),
                                                   FracDiv(volume_change, Frac(100, 1))))} })

\* "Calculate projections": new_price and volume_change first
Projection(cur, pc, el) ==
    Assigned({ WithVolume(cur, pc, new_price, volume_change) :
                 new_price \in {FracMul(cur.current_price, Frac(100 + pc, 100))},
                 volume_change \in {VolumeChange(pc, el)} })

\* The script from the Overview ratios to the simulator.  An exception ends
\* the run: what follows it is never assigned.
Tabs(t, filtered, dr, item, pc, el, k, h, sel, cur, proj, err) ==
    /\ k = KeyMetrics(filtered)
    /\ h = IF WasteTabRaises(dr) THEN <<>> ELSE <<HolidayCards(holiday_avg(filtered))>>
    /\ sel = IF h = <<>> \/ h[1].raised THEN "None" ELSE item
    /\ cur = IF h = <<>> \/ h[1].raised THEN <<>> ELSE <<CurrentFigures(t, filtered, item)>>
    /\ proj = IF cur = <<>> THEN <<>>
              ELSE IF cur[1].current_class = "unassigned" THEN <<>>
              ELSE <<Projection(cur[1], pc, el)>>
    /\ err = IF WasteTabRaises(dr) THEN "ZeroDivisionError"
             ELSE IF h[1].raised THEN "KeyError"
             ELSE IF cur[1].current_class = "unassigned" THEN "IndexError"
             ELSE "none"

\* slider defaults: value=0.0 and value=10.0
DefaultPriceChange == 0
DefaultElasticity == 10

\* A slider the run did not reach loses its state: it shows its default
\* when it is next drawn.
SliderState(proj, default, value) == IF proj = <<>> THEN default ELSE value

\* the options the selectbox showed in the last run (none when the run
\* ended before the simulator tab)
ShownOptions == IF current = <<>> THEN <<>> ELSE ItemOptions(filtered_df)

\* item_stats, median_revenue, median_margin = calculate_menu_engineering(...)
Unpack(menu, stats, med_revenue, med_margin) ==
    /\ stats = menu.item_stats
    /\ med_revenue = menu.median_revenue
    /\ med_margin = menu.median_margin

\* The script from the filter to the Waste tab, statement by statement, as a
\* relation between the widget values and the values the run leaves behind.
Script(t, dr, cats, chans, filtered, revenue, stats, med_revenue, med_margin, estimate, err) ==
    /\ filtered = filter_data(t, dr, cats, chans)
    /\ revenue = SumColumn(filtered, "total_revenue")
    /\ Unpack(calculate_menu_engineering(filtered), stats, med_revenue, med_margin)
    /\ estimate = AnnualWasteEstimate(filtered, dr)
    /\ err = IF WasteTabRaises(dr) THEN "ZeroDivisionError" ELSE "none"

\* a widget changed: Streamlit runs the script again from the top
RerunWith(dr, cats, chans, item, pc, el) ==
    /\ date_range' = dr
    /\ categories' = cats
    /\ channels' = chans
    /\ Script(df, dr, cats, chans, filtered_df', total_revenue', item_stats',
              median_revenue', median_margin', annual_waste_estimate', WasteError(dr))
    /\ Tabs(df, filtered_df', dr, item, pc, el, kpi', holiday', selected_item',
            current', projected', error')
    /\ price_change' = SliderState(projected', DefaultPriceChange, pc)
    /\ elasticity' = SliderState(projected', DefaultElasticity, el)
    /\ df' = AfterWasteTrend(df, filtered_df', dr)
    /\ UNCHANGED generator_vars

\* a sidebar widget changed: the selectbox follows its options, the sliders
\* keep their values
Rerun(dr, cats, chans) ==
    RerunWith(dr, cats, chans,
              Selectbox(ItemOptions(filter_data(df, dr, cats, chans)), ShownOptions, selected_item),
              price_change, elasticity)

\* first run: the widgets hold their defaults (full range, everything selected)
Loaded(t) ==
    /\ date_range = <<MinDate(t), MaxDate(t)>>
    /\ categories = CategoryOptions(t)
    /\ channels = ChannelOptions(t)
    /\ price_change = DefaultPriceChange
    /\ elasticity = DefaultElasticity
    /\ Script(t, date_range, categories, channels, filtered_df, total_revenue,
              item_stats, median_revenue, median_margin, annual_waste_estimate,
              WasteError(date_range))
    /\ Tabs(t, filtered_df, date_range, Selectbox(ItemOptions(filtered_df), <<>>, "None"),
            price_change, elasticity, kpi, holiday, selected_item, current,
            projected, error)
    /\ df = AfterWasteTrend(t, filtered_df, date_range)
    /\ GeneratorStart

---------------------------------------------------------------------------
(* The dashboard *)

Init == \E t \in Tables(MaxRows) : Loaded(t)

\* the range slider returns an ordered pair within the table's dates
SetDateRange ==
    \E lo \in MinDate(df)..MaxDate(df) : \E hi \in lo..MaxDate(df) :
        /\ <<lo, hi>> # date_range
        /\ Rerun(<<lo, hi>>, categories, channels)

SetCategories ==
    \E cats \in SUBSET CategoryOptions(df) :
        /\ cats # categories
        /\ Rerun(date_range, cats, channels)

SetChannels ==
    \E chans \in SUBSET ChannelOptions(df) :
        /\ chans # channels
        /\ Rerun(date_range, categories, chans)

Next == SetDateRange \/ SetCategories \/ SetChannels

Spec == Init /\ [][Next]_vars

---------------------------------------------------------------------------
(* The contract of filter_data: any date pair, any category and channel set *)

AllCategories == { MenuCategory(ItemNames[k]) : k \in DOMAIN ItemNames }
AllChannels == { r.order_channel : r \in LineItems }

\* the dates of the table and the day after its last one
DateChoices(t) == MinDate(t)..(MaxDate(t) + 1)

InitFilter == \E t \in Tables(MaxFilterRows) : Loaded(t)

\* filter_data(df, (start, end), categories, channels) with any date pair
CallDates ==
    \E start \in DateChoices(df), end \in DateChoices(df) :
        /\ <<start, end>> # date_range
        /\ Rerun(<<start, end>>, categories, channels)

\* ... with any set of categories
CallCategories ==
    \E cats \in SUBSET AllCategories :
        /\ cats # categories
        /\ Rerun(date_range, cats, channels)

\* ... with any set of channels
CallChannels ==
    \E chans \in SUBSET AllChannels :
        /\ chans # channels
        /\ Rerun(date_range, categories, chans)

NextFilter == CallDates \/ CallCategories \/ CallChannels

SpecFilter == InitFilter /\ [][NextFilter]_vars

---------------------------------------------------------------------------
(* The simulator widgets *)

\* the selectbox, when the run reached it
SelectItem ==
    \E k \in DOMAIN ShownOptions :
        /\ ShownOptions[k] # selected_item
        /\ RerunWith(date_range, categories, channels, ShownOptions[k], price_change, elasticity)

\* the price slider, when the run reached it, moved to one of the choices
MovePriceChange(choices) ==
    \E pc \in choices :
        /\ projected # <<>>
        /\ pc # price_change
        /\ RerunWith(date_range, categories, channels, selected_item, pc, elasticity)

\* the elasticity slider
MoveElasticity(choices) ==
    \E el \in choices :
        /\ projected # <<>>
        /\ el # elasticity
        /\ RerunWith(date_range, categories, channels, selected_item, price_change, el)

\* slider positions explored: both ends, the default and one value on each
\* side of 0 for the price (-20.0 .. 30.0); both ends and two values
\* between for the elasticity (0.0 .. 30.0)
PriceChoices == {-20, -5, 0, 10, 30}
ElasticityChoices == {0, 10, 20, 30}

SetPriceChange == MovePriceChange(PriceChoices)
SetElasticity == MoveElasticity(ElasticityChoices)

\* The simulator on the unfiltered table
NextProject == SelectItem \/ SetPriceChange \/ SetElasticity

InitProject == \E t \in Tables(MaxProjectRows) : Loaded(t)

SpecProject == InitProject /\ [][NextProject]_vars

\* The sidebar filters together with the simulator, on smaller tables and
\* fewer slider positions
SimPriceChoices == {-5, 0, 10}
SimElasticityChoices == {10, 20}

\* tables of the second day's orders and the delivery of the first day
SimTables(maxLen) == { t \in Tables(maxLen) : \A k \in DOMAIN t : t[k].order_id # 1 }

InitSim == \E t \in SimTables(MaxSimRows) : Loaded(t)

SimPriceChange == MovePriceChange(SimPriceChoices)
SimElasticity == MoveElasticity(SimElasticityChoices)

NextSim ==
    \/ SetDateRange
    \/ SetCategories
    \/ SetChannels
    \/ SelectItem
    \/ SimPriceChange
    \/ SimElasticity

SpecSim == InitSim /\ [][NextSim]_vars

---------------------------------------------------------------------------
(* generate_transactions *)

\* the dashboard is not running
DashboardIdle ==
    /\ df = <<>>
    /\ date_range = <<0, 0>>
    /\ categories = {}
    /\ channels = {}
    /\ filtered_df = <<>>
    /\ total_revenue = 0
    /\ item_stats = <<>>
    /\ median_revenue = NaN
    /\ median_margin = NaN
    /\ annual_waste_estimate = <<>>
    /\ error = "none"
    /\ kpi = KeyMetrics(<<>>)
    /\ holiday = <<>>
    /\ selected_item = "None"
    /\ price_change = DefaultPriceChange
    /\ elasticity = DefaultElasticity
    /\ current = <<>>
    /\ projected = <<>>

InitGen == DashboardIdle /\ GeneratorStart

\* while current_date <= end_date: the day's number of orders is drawn
StartDay ==
    /\ at = "day"
    /\ current_date <= EndDay
    /\ \E daily_orders \in 1..MaxDailyOrders : orders_left' = daily_orders
    /\ at' = "order"
    /\ UNCHANGED <<records, order_id, current_date, channel, order_items, orders_begun, order_of>>

\* the loop over the days ends: return pd.DataFrame(records)
Return ==
    /\ at = "day"
    /\ current_date > EndDay
    /\ at' = "done"
    /\ UNCHANGED <<records, order_id, current_date, orders_left, channel, order_items, orders_begun, order_of>>

\* for _ in range(daily_orders): the channel and the items are drawn
StartOrder ==
    /\ at = "order"
    /\ orders_left > 0
    /\ \E chan \in CHANNELS, items \in generate_order_items :
          /\ Len(records) + Len(items) <= MaxRecords
          /\ channel' = chan
          /\ order_items' = items
    /\ orders_begun' = orders_begun + 1
    /\ at' = "item"
    /\ UNCHANGED <<records, order_id, current_date, orders_left, order_of>>

\* the orders of the day are done: current_date += timedelta(days=1)
NextDay ==
    /\ at = "order"
    /\ orders_left = 0
    /\ current_date' = current_date + 1
    /\ at' = "day"
    /\ UNCHANGED <<records, order_id, orders_left, channel, order_items, orders_begun, order_of>>

\* for category, item in order_items: one record is appended
AppendRecord ==
    /\ at = "item"
    /\ order_items # <<>>
    /\ \E rate \in InflationRates, waste \in WasteDraws(order_items[1].category, order_items[1].item) :
          records' = Append(records, MakeRecord(order_id, current_date, channel, order_items[1], rate, waste))
    /\ order_of' = Append(order_of, orders_begun)
    /\ order_items' = Tail(order_items)
    /\ UNCHANGED <<order_id, current_date, orders_left, channel, at, orders_begun>>

\* the items of the order are done: order_id += 1
EndOrder ==
    /\ at = "item"
    /\ order_items = <<>>
    /\ order_id' = NextOrderId(order_id)
    /\ orders_left' = orders_left - 1
    /\ at' = "order"
    /\ UNCHANGED <<records, current_date, channel, order_items, orders_begun, order_of>>

NextGen ==
    \/ (StartDay /\ UNCHANGED dashboard_vars)
    \/ (Return /\ UNCHANGED dashboard_vars)
    \/ (StartOrder /\ UNCHANGED dashboard_vars)
    \/ (NextDay /\ UNCHANGED dashboard_vars)
    \/ (AppendRecord /\ UNCHANGED dashboard_vars)
    \/ (EndOrder /\ UNCHANGED dashboard_vars)

SpecGen == InitGen /\ [][NextGen]_vars

---------------------------------------------------------------------------
(* Properties of filter_data *)

\* row k of the loaded table is in the filtered table
Kept(k) == \E j \in DOMAIN filtered_df : filtered_df[j].idx = df[k].idx

\* the calendar date of row k lies in [start, end]
DateWithin(k) ==
    /\ date_range[1] <= date(df[k].order_date)
    /\ date(df[k].order_date) <= date_range[2]

PassesCategory(k) == categories = {} \/ df[k].category \in categories
PassesChannel(k) == channels = {} \/ df[k].order_channel \in channels

\* C1: a row is kept only if start <= order_date <= end, both bounds
\* inclusive, and every row inside the range that passes the category and
\* channel restrictions is kept; the time of day (order_datetime) plays no part.
C1_DateBoundsInclusive ==
    \A k \in DOMAIN df :
        /\ Kept(k) => DateWithin(k)
        /\ (DateWithin(k) /\ PassesCategory(k) /\ PassesChannel(k)) => Kept(k)

\* a row placed after midnight on the start date and one on the end date
\* are kept while a row outside the range is dropped
C1_Witness ==
    /\ \E k \in DOMAIN df :
          /\ date(df[k].order_date) = date_range[1]
          /\ date(df[k].order_date) = date_range[2]
          /\ df[k].order_datetime > df[k].order_date
          /\ Kept(k)
    /\ \E k \in DOMAIN df : ~DateWithin(k) /\ ~Kept(k)

\* C2: an empty category (channel) selection restricts nothing, so it gives
\* the rows that selecting every category (channel) gives; a non-empty
\* selection keeps exactly the rows whose category (channel) is a member.
C2_EmptySelectionIsAll ==
    /\ categories = {} =>
          filtered_df = filter_data(df, date_range, AllCategories, channels)
    /\ channels = {} =>
          filtered_df = filter_data(df, date_range, categories, AllChannels)
    /\ \A k \in DOMAIN df :
          Kept(k) <=> /\ DateWithin(k)
                      /\ categories # {} => df[k].category \in categories
                      /\ channels # {} => df[k].order_channel \in channels

\* nothing is selected and rows of two categories and two channels are kept
C2_Witness ==
    /\ categories = {}
    /\ channels = {}
    /\ \E j, k \in DOMAIN filtered_df :
          /\ filtered_df[j].category # filtered_df[k].category
          /\ filtered_df[j].order_channel # filtered_df[k].order_channel

\* C3: the filtered table is a subsequence of the loaded table: index labels
\* strictly increase (input order, no row twice) and every kept row is the
\* input row of that label, every column unchanged.
C3_FilteredIsSubsequence ==
    /\ \A j \in DOMAIN filtered_df :
          /\ filtered_df[j].idx \in DOMAIN df
          /\ filtered_df[j] = df[filtered_df[j].idx]
    /\ \A i, j \in DOMAIN filtered_df :
          i < j => filtered_df[i].idx < filtered_df[j].idx

\* the middle row of three is dropped, the rows around it are kept in order
C3_Witness ==
    /\ Len(df) = 3
    /\ filtered_df = <<df[1], df[3]>>

C4_StartAfterEndIsEmpty ==
    date_range[1] > date_range[2] => filtered_df = <<>>

\* C5: with the full date range of the table and every category and channel
\* selected, the filtered table is the loaded table, row for row.
C5_FullRangeRoundTrip ==
    ( /\ date_range = <<MinDate(df), MaxDate(df)>>
      /\ categories = CategoryOptions(df)
      /\ channels = ChannelOptions(df) )
    => filtered_df = df

\* the full selection over a table spanning two days, categories and channels
C5_Witness ==
    /\ date_range = <<MinDate(df), MaxDate(df)>>
    /\ MinDate(df) < MaxDate(df)
    /\ categories = CategoryOptions(df)
    /\ Cardinality(categories) = 2
    /\ channels = ChannelOptions(df)
    /\ Cardinality(channels) = 2
    /\ filtered_df = df

\* C6: filtering the filtered table again with the same parameters changes
\* nothing.
C6_FilterIdempotent ==
    filter_data(filtered_df, date_range, categories, channels) = filtered_df

\* the filter dropped a row and kept a row
C6_Witness ==
    /\ filtered_df # <<>>
    /\ Len(filtered_df) < Len(df)
    /\ filter_data(filtered_df, date_range, categories, channels) = filtered_df

---------------------------------------------------------------------------
(* Properties of calculate_menu_engineering *)

\* the rows of the filtered table that belong to an item
RowsOf(name) == { k \in DOMAIN filtered_df : filtered_df[k].item_name = name }

\* the items that have a row in the filtered table
Present == { name \in Range(ItemNames) : RowsOf(name) # {} }

\* the sum of a column over a set of rows of the filtered table
RECURSIVE SumRows(_, _)
SumRows(S, col) ==
    IF S = {} THEN 0
    ELSE LET k == CHOOSE x \in S : TRUE
         IN  filtered_df[k][col] + SumRows(S \ {k}, col)

\* the sum of a column of item_stats over a set of its rows
RECURSIVE SumStats(_, _)
SumStats(S, col) ==
    IF S = {} THEN 0
    ELSE LET j == CHOOSE x \in S : TRUE
         IN  item_stats[j][col] + SumStats(S \ {j}, col)

\* fractions with positive denominators, compared by cross-multiplication
Below(x, y) == x.n * y.d < y.n * x.d
Same(x, y) == x.n * y.d = y.n * x.d

\* C7: one aggregate per item of the filtered table, with revenue and margin
\* the sums over the item's rows, quantity_sold the number of its rows (not
\* their quantity), and margin_per_unit = margin / quantity_sold, unclamped.
C7_OneAggregatePerItem ==
    \A name \in Range(ItemNames) :
        LET entries == { j \in DOMAIN item_stats : item_stats[j].item_name = name }
        IN  /\ Cardinality(entries) = IF name \in Present THEN 1 ELSE 0
            /\ \A j \in entries :
                  /\ item_stats[j].revenue = SumRows(RowsOf(name), "total_revenue")
                  /\ item_stats[j].margin = SumRows(RowsOf(name), "contribution_margin")
                  /\ item_stats[j].quantity_sold = Cardinality(RowsOf(name))
                  /\ item_stats[j].margin_per_unit.d > 0
                  /\ item_stats[j].margin_per_unit.n * item_stats[j].quantity_sold
                        = item_stats[j].margin * item_stats[j].margin_per_unit.d

\* an item whose only row has quantity 3 counts 1, and an item has a
\* negative margin per unit
C7_Witness ==
    /\ \E j \in DOMAIN item_stats :
          /\ item_stats[j].quantity_sold = 1
          /\ \E k \in RowsOf(item_stats[j].item_name) : filtered_df[k].quantity = 3
    /\ \E j \in DOMAIN item_stats : item_stats[j].margin_per_unit.n < 0

\* C8: the per-item revenues add up to the revenue of the filtered rows and
\* the per-item quantities add up to the number of filtered rows.
C8_GroupingConserves ==
    /\ SumStats(DOMAIN item_stats, "revenue") = total_revenue
    /\ SumStats(DOMAIN item_stats, "quantity_sold") = Len(filtered_df)

\* two items, one of them with two rows that both earn revenue
C8_Witness ==
    /\ Len(item_stats) = 2
    /\ \E j \in DOMAIN item_stats :
          /\ item_stats[j].quantity_sold = 2
          /\ \A k \in RowsOf(item_stats[j].item_name) : filtered_df[k].total_revenue > 0
    /\ SumStats(DOMAIN item_stats, "revenue") = total_revenue

\* the per-item values, straight from the filtered rows
RevenueOf(name) == [n |-> SumRows(RowsOf(name), "total_revenue"), d |-> 1]
MarginPerUnitOf(name) ==
    [n |-> SumRows(RowsOf(name), "contribution_margin"), d |-> Cardinality(RowsOf(name))]

\* v is the k-th smallest of the values val[name], name in Present
IsKth(val, v, k) ==
    /\ \E name \in Present : Same(val[name], v)
    /\ Cardinality({ name \in Present : Below(val[name], v) }) < k
    /\ Cardinality({ name \in Present : ~Below(v, val[name]) }) >= k

\* m is the median of the values: the middle one, or the mean of the two
\* middle ones
IsMedian(val, m) ==
    LET n == Cardinality(Present)
        values == { val[name] : name \in Present }
    IN  /\ m.d > 0
        /\ n % 2 = 1 => IsKth(val, m, (n + 1) \div 2)
        /\ n % 2 = 0 =>
              \E lo \in values, hi \in values :
                  /\ IsKth(val, lo, n \div 2)
                  /\ IsKth(val, hi, n \div 2 + 1)
                  /\ m.n * 2 * lo.d * hi.d = m.d * (lo.n * hi.d + hi.n * lo.d)

\* the multiset of per-item revenues, as a sorted sequence when it matches
RevenuesAre(s) ==
    /\ Len(item_stats) = Len(s)
    /\ \E f \in [DOMAIN s -> DOMAIN item_stats] :
          /\ \A a, b \in DOMAIN s : a # b => f[a] # f[b]
          /\ \A a \in DOMAIN s : item_stats[f[a]].revenue = s[a]

\* C9: the two medians are medians of the per-item values (one value per
\* item): the middle value for an odd number of items, the mean of the two
\* middle values for an even number; [10,20,30] gives 20 and [10,20] gives 15.
C9_MediansOverItems ==
    /\ Present # {} =>
          /\ IsMedian([name \in Present |-> RevenueOf(name)], median_revenue)
          /\ IsMedian([name \in Present |-> MarginPerUnitOf(name)], median_margin)
    /\ RevenuesAre(<<10, 20, 30>>) => median_revenue = [n |-> 20, d |-> 1]
    /\ RevenuesAre(<<10, 20>>) => median_revenue = [n |-> 15, d |-> 1]

\* two items with revenues 10 and 20 over three rows: the median of the
\* items is 15 (the median of the rows would be 10)
C9_Witness ==
    /\ Len(filtered_df) = 3
    /\ RevenuesAre(<<10, 20>>)
    /\ \E k \in DOMAIN filtered_df : filtered_df[k].total_revenue = 0
    /\ median_revenue = [n |-> 15, d |-> 1]

\* the label of the decision table, ties to the high branch
TableLabel(r) ==
    LET highRevenue == r.revenue * median_revenue.d >= median_revenue.n
        highMargin == r.margin_per_unit.n * median_margin.d
                          >= median_margin.n * r.margin_per_unit.d
    IN  IF highRevenue /\ highMargin THEN "Star"
        ELSE IF highRevenue /\ ~highMargin THEN "Plowhorse"
        ELSE IF ~highRevenue /\ highMargin THEN "Puzzle"
        ELSE "Dog"

\* item A (revenue 1000, margin per unit 5) and item B (500, 10)
ScenarioAB ==
    /\ Len(item_stats) = 2
    /\ item_stats[1].revenue = 1000
    /\ item_stats[1].margin_per_unit = [n |-> 5, d |-> 1]
    /\ item_stats[2].revenue = 500
    /\ item_stats[2].margin_per_unit = [n |-> 10, d |-> 1]

\* C10: every aggregate carries the one label the decision table gives it
\* (>= on both axes); for A (1000, 5) and B (500, 10) the medians are
\* (750, 7.5), A is a Plowhorse and B a Puzzle.
C10_DecisionTable ==
    /\ \A j \in DOMAIN item_stats :
          /\ median_revenue.d > 0
          /\ median_margin.d > 0
          /\ item_stats[j].classification = TableLabel(item_stats[j])
    /\ ScenarioAB =>
          /\ median_revenue = [n |-> 750, d |-> 1]
          /\ median_margin = [n |-> 15, d |-> 2]
          /\ item_stats[1].classification = "Plowhorse"
          /\ item_stats[2].classification = "Puzzle"

\* the scenario of items A and B, classified
C10_Witness ==
    /\ ScenarioAB
    /\ item_stats[1].classification = "Plowhorse"
    /\ item_stats[2].classification = "Puzzle"

---------------------------------------------------------------------------
(* Properties of a run of the script *)

\* C11: after any sequence of filter and simulator changes the filtered
\* table is the filter of the loaded table under the widgets' present
\* values, and the item aggregates, both medians and every classification,
\* the matrix's and the simulator's, are those of that filtered table.
C11_ComputedFromCurrentFilter ==
    /\ filtered_df = filter_data(df, date_range, categories, channels)
    /\ Unpack(calculate_menu_engineering(filtered_df), item_stats, median_revenue, median_margin)
    /\ current # <<>> =>
          /\ current[1].median_revenue = median_revenue
          /\ current[1].median_margin = median_margin
          /\ current[1].current_class = ClassOf(item_stats, selected_item)
    /\ projected # <<>> =>
          projected[1].new_class =
              NewClass(projected[1].new_revenue, projected[1].new_margin_per_unit,
                       median_revenue, median_margin)

\* a filter that removes rows and moves a median, with the slider moved
C11_Witness ==
    /\ filtered_df # df
    /\ filtered_df # <<>>
    /\ price_change # DefaultPriceChange
    /\ projected # <<>>
    /\ calculate_menu_engineering(df).median_revenue # median_revenue
    /\ projected[1].new_class # current[1].current_class

---------------------------------------------------------------------------
(* Properties of the price simulator *)

\* C12: the volume change is minus the elasticity when the price change is
\* positive and plus half the elasticity otherwise; with elasticity 20 a
\* price change of +10 gives -20, and 0 and -5 both give +10.
C12_AsymmetricVolume ==
    projected # <<>> =>
        /\ price_change > 0 =>
              projected[1].volume_change = [n |-> -elasticity, d |-> 1]
        /\ price_change <= 0 =>
              FracAdd(projected[1].volume_change, projected[1].volume_change)
                  = [n |-> elasticity, d |-> 1]
        /\ elasticity = 20 /\ price_change = 10 =>
              projected[1].volume_change = [n |-> -20, d |-> 1]
        /\ elasticity = 20 /\ price_change = 0 =>
              projected[1].volume_change = [n |-> 10, d |-> 1]
        /\ elasticity = 20 /\ price_change = -5 =>
              projected[1].volume_change = [n |-> 10, d |-> 1]

\* a price cut of 5 percent at elasticity 20
C12_Witness ==
    /\ projected # <<>>
    /\ elasticity = 20
    /\ price_change = -5
    /\ projected[1].volume_change = [n |-> 10, d |-> 1]

\* sums over the rows of the selected item in the filtered table
SelectedSum(col) == SumRows(RowsOf(selected_item), col)
SelectedCount == Cardinality(RowsOf(selected_item))

\* x is the number n / d
IsQuotient(x, n, d) == x.d > 0 /\ d > 0 /\ x.n * d = n * x.d

\* C13: new_price = current_price * (1 + price_change / 100), new_quantity =
\* current_quantity * (1 + volume_change / 100) kept fractional, new_revenue
\* = new_price * new_quantity, new_margin = (new_price - food cost per unit)
\* * new_quantity with the food cost unchanged, and net_impact = new_margin
\* less the sum of contribution_margin over the item's filtered rows.
C13_ProjectionArithmetic ==
    projected # <<>> =>
        LET p == projected[1]
            q == SelectedCount
        IN  /\ IsQuotient(p.new_price,
                          SelectedSum("actual_price") * (100 + price_change), q * 100)
            /\ IsQuotient(p.new_quantity,
                          q * (100 * p.volume_change.d + p.volume_change.n),
                          100 * p.volume_change.d)
            /\ IsQuotient(p.new_revenue,
                          p.new_price.n * p.new_quantity.n,
                          p.new_price.d * p.new_quantity.d)
            /\ IsQuotient(p.new_margin,
                          (p.new_price.n * q - SelectedSum("food_cost_per_unit") * p.new_price.d)
                              * p.new_quantity.n,
                          p.new_price.d * q * p.new_quantity.d)
            /\ IsQuotient(p.net_impact,
                          p.new_margin.n - SelectedSum("contribution_margin") * p.new_margin.d,
                          p.new_margin.d)

\* a price rise that leaves a fractional quantity and a net impact
C13_Witness ==
    /\ projected # <<>>
    /\ price_change > 0
    /\ elasticity > 0
    /\ projected[1].new_quantity.d > 1
    /\ projected[1].net_impact.n # 0
    /\ projected[1].new_revenue.n # 0

\* C14: new_margin_per_unit is new_margin / new_quantity when new_quantity
\* is positive and 0 otherwise; it is never the outcome of a division by a
\* zero quantity (inf or nan).
C14_GuardedMarginPerUnit ==
    projected # <<>> =>
        LET p == projected[1]
        IN  /\ p.new_margin_per_unit.d > 0
            /\ p.new_quantity.d > 0
            /\ p.new_quantity.n > 0 =>
                  IsQuotient(p.new_margin_per_unit,
                             p.new_margin.n * p.new_quantity.d,
                             p.new_margin.d * p.new_quantity.n)
            /\ p.new_quantity.n <= 0 => p.new_margin_per_unit = [n |-> 0, d |-> 1]

\* a projection with a positive quantity and a margin per unit other than 0
C14_Witness ==
    /\ projected # <<>>
    /\ price_change > 0
    /\ projected[1].new_quantity.n > 0
    /\ projected[1].new_quantity.d > 1
    /\ projected[1].new_margin_per_unit.n # 0

\* the label the decision table gives (revenue, margin per unit) against the
\* medians of the matrix
LabelAgainstMedians(revenue, margin_per_unit) ==
    LET highRevenue == revenue.n * median_revenue.d >= median_revenue.n * revenue.d
        highMargin == margin_per_unit.n * median_margin.d
                          >= median_margin.n * margin_per_unit.d
    IN  IF highRevenue /\ highMargin THEN "Star"
        ELSE IF highRevenue THEN "Plowhorse"
        ELSE IF highMargin THEN "Puzzle"
        ELSE "Dog"

\* the projected class is the decision table's label against the medians of
\* the unsimulated items of the filtered table
ProjectedAgainstCurrentMedians ==
    projected # <<>> =>
        /\ IsMedian([name \in Present |-> RevenueOf(name)], median_revenue)
        /\ IsMedian([name \in Present |-> MarginPerUnitOf(name)], median_margin)
        /\ current[1].median_revenue = median_revenue
        /\ current[1].median_margin = median_margin
        /\ projected[1].new_class =
              LabelAgainstMedians(projected[1].new_revenue, projected[1].new_margin_per_unit)

\* a step of the simulator widgets: the sidebar is as it was
SimulatorStep ==
    /\ date_range' = date_range
    /\ categories' = categories
    /\ channels' = channels

\* C15: the projected class is the four-way table (>= on both axes) applied
\* to (new_revenue, new_margin_per_unit) against the medians of the current,
\* unsimulated items; a run of the simulator with any parameters leaves the
\* medians and every item's aggregate and classification as they were.
C15_SimulatorFrame ==
    /\ []ProjectedAgainstCurrentMedians
    /\ [][SimulatorStep => UNCHANGED <<filtered_df, item_stats, median_revenue, median_margin>>]_vars

\* with two items on the menu, a price change moves the selected item to
\* another class
C15_Witness ==
    /\ projected # <<>>
    /\ Len(item_stats) >= 2
    /\ price_change # DefaultPriceChange
    /\ projected[1].new_class # current[1].current_class

\* C16: whenever a run reaches the simulator's arithmetic (current_margin /
\* current_quantity, the classification lookup), the selected item has at
\* least one row in the filtered table, under every filter.
C16_SelectedItemHasRows ==
    current # <<>> =>
        /\ selected_item \in Present
        /\ current[1].current_quantity > 0
        /\ current[1].current_margin_per_unit.d > 0
        /\ error # "IndexError"

---------------------------------------------------------------------------
(* Properties of the Overview ratios and the holiday cards *)

Zero == [n |-> 0, d |-> 1]

\* C17: with zero filtered rows every ratio shown is the fallback 0:
\* food_cost_pct, the average ticket, the gross-margin percentage, the waste
\* share of food cost and the waste rate.
C17_EmptyRatiosAreZero ==
    filtered_df = <<>> =>
        /\ kpi.food_cost_pct = Zero
        /\ kpi.avg_ticket = Zero
        /\ kpi.gross_margin_pct = Zero
        /\ kpi.waste_share = Zero
        /\ kpi.waste_rate = Zero

\* the two guarded ratios are 0 on the empty table
C17_GuardedRatiosAreZero ==
    filtered_df = <<>> =>
        /\ kpi.food_cost_pct = Zero
        /\ kpi.waste_rate = Zero

\* the holiday flags that occur in the filtered table
FlagsPresent == { filtered_df[k].is_holiday : k \in DOMAIN filtered_df }

\* the filtered rows with a given holiday flag
FlagRows(flag) == { k \in DOMAIN filtered_df : filtered_df[k].is_holiday = flag }

\* the average daily revenue of the rows with a given flag
DailyAverageIs(x, flag) ==
    IsQuotient(x, SumRows(FlagRows(flag), "total_revenue"),
               Cardinality({ filtered_df[k].order_date : k \in FlagRows(flag) }))

\* C18: a holiday flag without rows is absent from the grouped averages; the
\* card of an absent flag shows 0, the card of a present one its average
\* daily revenue, the percentage is computed exactly when both flags are
\* present, and no absent key is looked up (no KeyError).
C18_AbsentGroupIsNoData ==
    holiday # <<>> =>
        /\ DOMAIN holiday_avg(filtered_df) = FlagsPresent
        /\ ~holiday[1].raised
        /\ error # "KeyError"
        /\ Len(holiday[1].regular) = 1
        /\ Len(holiday[1].holiday) = 1
        /\ FALSE \notin FlagsPresent => holiday[1].regular[1] = Zero
        /\ TRUE \notin FlagsPresent => holiday[1].holiday[1] = Zero
        /\ FALSE \in FlagsPresent => DailyAverageIs(holiday[1].regular[1], FALSE)
        /\ TRUE \in FlagsPresent => DailyAverageIs(holiday[1].holiday[1], TRUE)
        /\ holiday[1].delta # <<>> <=> FlagsPresent = {TRUE, FALSE}

\* only holiday rows pass the filter: the regular card shows 0 and there is
\* no percentage
C18_Witness ==
    /\ holiday # <<>>
    /\ FlagsPresent = {TRUE}
    /\ filtered_df # df
    /\ holiday[1].regular = <<Zero>>
    /\ holiday[1].holiday[1].n > 0
    /\ holiday[1].delta = <<>>

---------------------------------------------------------------------------
(* Properties of the generator *)

\* C19: in every generated record total_revenue is 0 exactly when is_waste
\* holds (the revenue of any other record is positive), quantity is a
\* positive integer, and food_cost_pct is 0 whenever total_revenue is 0.
C19_RecordInvariant ==
    \A k \in DOMAIN records :
        /\ records[k].total_revenue = 0 <=> records[k].is_waste
        /\ ~records[k].is_waste => records[k].total_revenue > 0
        /\ records[k].quantity \in Nat \ {0}
        /\ records[k].total_revenue = 0 => records[k].food_cost_pct = 0

\* a wasted record and a sold one, the latter with a food cost percentage
C19_Witness ==
    \E j \in DOMAIN records, k \in DOMAIN records :
        /\ records[j].is_waste
        /\ records[j].total_revenue = 0
        /\ records[j].total_food_cost > 0
        /\ ~records[k].is_waste
        /\ records[k].food_cost_pct > 0

\* the records of one order carry one order_id that no other order uses, and
\* name each item once
OneRowPerOrderItem ==
    /\ Len(order_of) = Len(records)
    /\ \A j \in DOMAIN records, k \in DOMAIN records :
          /\ records[j].order_id = records[k].order_id <=> order_of[j] = order_of[k]
          /\ j # k /\ order_of[j] = order_of[k] =>
                records[j].item_name # records[k].item_name

\* a step leaves the records as they are or appends one
AppendOnly ==
    \/ records' = records
    \/ /\ Len(records') = Len(records) + 1
       /\ SubSeq(records', 1, Len(records)) = records

\* C20: the generator emits one row per (order, item): rows are only
\* appended, the rows of one order share an order_id that no other order
\* uses, and no item_name occurs twice within an order.
C20_OneRowPerOrderItem ==
    /\ []OneRowPerOrderItem
    /\ [][AppendOnly]_vars

\* two orders on record that name the same main
C20_Witness ==
    /\ Len(records) = 4
    /\ order_of[2] = order_of[1]
    /\ order_of[3] # order_of[1]
    /\ order_of[4] = order_of[3]
    /\ records[3].order_id # records[1].order_id
    /\ records[3].item_name = records[1].item_name

---------------------------------------------------------------------------
(* Further properties of the dashboard *)

\* every row of the loaded table is a line item as it was read, under its
\* index label
RowsAsLoaded ==
    \A k \in DOMAIN df :
        /\ df[k].idx = k
        /\ [c \in DOMAIN df[k] \ {"idx"} |-> df[k][c]] \in LineItems

\* C21: the loaded table is read only: whatever filters are set and
\* whatever the tabs compute (aggregates, classes, the Waste tab's month
\* column, the simulator), its rows, columns and values stay as loaded.
C21_LoadedTableReadOnly ==
    /\ []RowsAsLoaded
    /\ [][df' = df]_vars

\* a run that filtered rows out, kept a waste row for the Waste tab and
\* projected a price change
C21_Witness ==
    /\ filtered_df # df
    /\ \E k \in DOMAIN filtered_df : filtered_df[k].is_waste
    /\ annual_waste_estimate # <<>>
    /\ projected # <<>>
    /\ price_change # DefaultPriceChange

\* C22: whenever there is at least one item aggregate, some item is labelled
\* Star or Plowhorse (the largest revenue is at least the median revenue) and
\* some item is labelled Star or Puzzle (the largest margin per unit is at
\* least the median margin); a filtered table of a single item labels it Star.
C22_HighSideNeverEmpty ==
    item_stats # <<>> =>
        /\ \E j \in DOMAIN item_stats :
              /\ FracGE(Frac(item_stats[j].revenue, 1), median_revenue)
              /\ item_stats[j].classification \in {"Star", "Plowhorse"}
        /\ \E j \in DOMAIN item_stats :
              /\ FracGE(item_stats[j].margin_per_unit, median_margin)
              /\ item_stats[j].classification \in {"Star", "Puzzle"}
        /\ Len(item_stats) = 1 => item_stats[1].classification = "Star"

\* two items, neither a Star (one Plowhorse, one Puzzle), and then a filter
\* that leaves a single item
C22_Witness ==
    \/ /\ Len(item_stats) = 2
       /\ \A j \in DOMAIN item_stats : item_stats[j].classification # "Star"
    \/ /\ Len(item_stats) = 1
       /\ Len(filtered_df) = 2
       /\ filtered_df # df

\* the selected item's filtered rows are all sales of one unit
SelectedSoldSingly ==
    \A k \in RowsOf(selected_item) :
        ~filtered_df[k].is_waste /\ filtered_df[k].quantity = 1

\* C23: with price_change = 0 and elasticity = 0, for an item whose filtered
\* rows hold no waste line and all have quantity 1, the projection is the
\* current figures: new_price = current_price, new_quantity =
\* current_quantity, new_revenue = current_revenue, new_margin =
\* current_margin, net_impact = 0 and the projected class is the current one.
C23_ZeroChangeIsIdentity ==
    (projected # <<>> /\ price_change = 0 /\ elasticity = 0 /\ SelectedSoldSingly) =>
        LET p == projected[1]
            c == current[1]
        IN  /\ p.new_price = c.current_price
            /\ IsQuotient(p.new_price, SelectedSum("actual_price"), SelectedCount)
            /\ p.new_quantity = [n |-> c.current_quantity, d |-> 1]
            /\ p.new_quantity.n = SelectedCount
            /\ p.new_revenue = [n |-> c.current_revenue, d |-> 1]
            /\ p.new_revenue.n = SelectedSum("total_revenue")
            /\ p.new_margin = [n |-> c.current_margin, d |-> 1]
            /\ p.new_margin.n = SelectedSum("contribution_margin")
            /\ p.net_impact = [n |-> 0, d |-> 1]
            /\ p.new_class = c.current_class
            /\ \A j \in DOMAIN item_stats :
                  item_stats[j].item_name = selected_item
                      => p.new_class = item_stats[j].classification

\* both sliders brought to 0 for an item sold twice at different prices,
\* one unit each, with no waste line
C23_Witness ==
    /\ projected # <<>>
    /\ price_change = 0
    /\ elasticity = 0
    /\ SelectedSoldSingly
    /\ SelectedCount = 2
    /\ \E j, k \in RowsOf(selected_item) :
          filtered_df[j].actual_price # filtered_df[k].actual_price
    /\ projected[1].new_revenue.n > 0

\* the revenue axis of the projected label
ProjectedHighRevenue ==
    FracGE(projected[1].new_revenue, current[1].median_revenue)

\* a run that differs from the one before in the elasticity slider only
ElasticityStep ==
    /\ projected # <<>>
    /\ projected' # <<>>
    /\ elasticity' # elasticity
    /\ price_change' = price_change
    /\ selected_item' = selected_item
    /\ filtered_df' = filtered_df

\* C24: whenever new_quantity > 0, new_margin_per_unit is exactly new_price
\* less the current food cost per unit, whatever the elasticity and the
\* current quantity: moving the elasticity slider leaves it unchanged and
\* can change the projected label only by moving new_revenue across the
\* median revenue.
C24_MarginPerUnitIsPriceLessCost ==
    /\ [](projected # <<>> /\ projected[1].new_quantity.n > 0 =>
            /\ projected[1].new_margin_per_unit
                   = FracSub(projected[1].new_price, current[1].current_food_cost)
            /\ IsQuotient(projected[1].new_margin_per_unit,
                          SelectedSum("actual_price") * (100 + price_change)
                              - SelectedSum("food_cost_per_unit") * 100,
                          SelectedCount * 100))
    /\ [][ElasticityStep =>
            /\ projected'[1].new_margin_per_unit = projected[1].new_margin_per_unit
            /\ ProjectedHighRevenue' = ProjectedHighRevenue
                   => projected'[1].new_class = projected[1].new_class]_vars

\* the elasticity slider moved for an item of two rows after a price rise:
\* the quantity is fractional and the margin per unit is still the new
\* price less the food cost
C24_Witness ==
    /\ projected # <<>>
    /\ price_change > 0
    /\ elasticity \notin {0, DefaultElasticity}
    /\ SelectedCount = 2
    /\ projected[1].new_quantity.n > 0
    /\ projected[1].new_quantity.d > 1
    /\ projected[1].new_margin_per_unit.n > 0

\* C25: for every price_change in [-20, 30], elasticity in [0, 30] and
\* current_quantity >= 1, new_quantity lies between 0.7 and 1.15 times
\* current_quantity and is strictly positive, so new_margin_per_unit is
\* always the quotient and never the 'else 0' fallback; at every position
\* of the two sliders the volume change is between -30 and +15 percent.
C25_QuantityStaysPositive ==
    projected # <<>> =>
        LET p == projected[1]
            q == current[1].current_quantity
        IN  /\ price_change \in -20..30
            /\ elasticity \in 0..30
            /\ q >= 1
            /\ q = SelectedCount
            /\ p.new_quantity.d > 0
            /\ 10 * p.new_quantity.n >= 7 * q * p.new_quantity.d
            /\ 100 * p.new_quantity.n <= 115 * q * p.new_quantity.d
            /\ p.new_quantity.n > 0
            /\ IsQuotient(p.new_margin_per_unit,
                          p.new_margin.n * p.new_quantity.d,
                          p.new_margin.d * p.new_quantity.n)
            /\ \A pc \in -20..30, el \in 0..30 :
                  LET v == VolumeChange(pc, el)
                  IN  v.d > 0 /\ v.n >= -30 * v.d /\ v.n <= 15 * v.d

\* both sliders at their upper ends: the quantity of a two-row item is at
\* its lower limit of 0.7 times the current one
C25_Witness ==
    /\ projected # <<>>
    /\ price_change = 30
    /\ elasticity = 30
    /\ current[1].current_quantity = 2
    /\ projected[1].new_quantity = [n |-> 7, d |-> 5]

---------------------------------------------------------------------------
(* Further properties of the generator *)

=============================================================================
